---- MODULE Spec2Model ----
(***************************************************************************)
(* BMNS: the parallel brute-force grid search of BMNS.py (parmap, fun,     *)
(* Brute_loop and the aggregation in Main) and the AMPGO global optimizer  *)
(* of src/AMPGO.py, as state machines.                                     *)
(***************************************************************************)
EXTENDS Integers, Sequences, FiniteSets, TLC

(***************************************************************************)
(* Bounds of the model.                                                    *)
(***************************************************************************)
MaxGrid == 3
MaxProcs == 2
MaxObs == 1
MaxFitLoops == 1
MaxBudget == 4
MaxTotalIter == 2
MaxMaxIter == 2
MaxNfev == 2
MaxTabu == 2
MaxPts == 2
MaxSets == 2
MaxMC == 2
MaxLoops == 2

VARIABLES
    \* ---- brute mode (BMNS.py) ----
    nprocs,     \* cpu_count(): number of worker processes
    gridN,      \* len(gl.brutegP0)
    score,      \* score[idx]: reduced chi-square Brute_loop computes at grid point idx
    raises,     \* grid indices whose evaluation raises inside the worker (at most one)
    FitLoops,   \* gl.FitLoops
    lp,         \* index of the primary fitting loop
    mainpc,     \* position of the main process
    sent,       \* number of work items put on q_in
    poisoned,   \* number of poison items put on q_in
    res,        \* results taken from q_out, in the order they were taken
    joined,     \* number of workers joined
    q_in,       \* the input queue, Queue(1)
    q_out,      \* the output queue
    wpc,        \* wpc[w]: position of worker w
    witem,      \* witem[w]: the (i, x) worker w took last
    ncalls,     \* ncalls[idx]: how many times f was called on X[idx] in this parmap
    allfits,    \* the variable allfits of Main
    tP0,        \* start vector of the final refinement
    records,    \* fit records written so far (WriteFits), oldest first
    \* ---- AMPGO (src/AMPGO.py) ----
    local,          \* the local solver
    objfun,         \* objfun[x]: the objective at point x
    maxfunevals_in, \* the maxfunevals AMPGO was given
    maxfunevals,    \* the variable maxfunevals: the budget left
    totaliter,
    maxiter,
    glbtol,
    eps1,
    fmin,
    tabulistsize,
    tabustrategy,
    x0,
    tabulist,
    best_f,
    best_x,
    global_iter,
    all_tunnel,
    success_tunnel,
    evaluations,
    i,
    improve,
    xf,
    yf,
    apc,            \* position of AMPGO: "entry", "min", "tunnel", "endloop", "returned",
                    \* "raised"
    bounds_len,     \* len(bounds), None when bounds is None
    installed,      \* the solver libraries that could be imported
    exc,            \* the exception AMPGO raised, "" when none
    msg,            \* the message returned
    started,        \* number of minimization phases (global iterations) started
    \* ---- one call of a function ----
    fname,          \* the function called
    fargs,          \* its arguments
    fret,           \* the value it returned
    fpc,            \* "call" before the call, "ret" after it
    \* ---- Main of BMNS.py: setup, and the global, local and localint fits ----
    pos,            \* position of Main
    nObs,           \* len(gl.gObs): the number of datasets
    parsErr,        \* pInp.CheckPars reports an error
    dataErr,        \* the datasets for which pInp.ParseData reports an error
    errsum0,        \* the datasets whose error column sums to zero
    FitType,        \* gl.FitType
    mcerr,          \* Monte-Carlo error estimation flagged (-fitmc)
    fitMC,          \* number of Monte-Carlo iterations
    loops,          \* gl.FitLoops
    loop,           \* lp of the primary fitting loop
    didx,           \* idx of the dataset loop of line 149
    errBool,
    retMsg,         \* the messages gathered, as the list of their sources
    printed,        \* what HandleErrors printed
    exitcode,       \* the status of sys.exit, None while running
    fitted,         \* fitted.x of the main fit
    mci,            \* i of the Monte-Carlo loop
    tpars,          \* the vectors of the Monte-Carlo refits
    ob_R1p_MC,      \* ob_R1p_MC[ob]: the Monte-Carlo iteration that drew ob.R1p_MC
    refits,         \* the Monte-Carlo refits made in this fit loop: start and data
    optcalls,       \* calls of an optimizer so far (AMPGO, least_squares)
    arrays,         \* arrays[a]: the values the numpy array a holds
    R1pD_MC,        \* R1pD_MC[ob]: the array ob.R1p_MC or ob.R1pD_MC refers to
    fitted_msg,     \* fitted[3] of the global fit: the message AMPGO returned
    polish_x0,      \* the start vector handed to the polish of the global fit
    fits            \* fit records written so far (UnPackFits, WriteFits)

bruteVars == <<nprocs, gridN, score, raises, FitLoops, lp, mainpc, sent, poisoned,
               res, joined, q_in, q_out, wpc, witem, ncalls, allfits, tP0, records>>

ampgoVars == <<local, objfun, maxfunevals_in, maxfunevals, totaliter, maxiter, glbtol, eps1,
               fmin, tabulistsize, tabustrategy, x0, tabulist, best_f, best_x,
               global_iter, all_tunnel, success_tunnel, evaluations, i, improve, xf, yf,
               apc, msg, started, bounds_len, installed, exc>>

funVars == <<fname, fargs, fret, fpc>>

mainInputs == <<nObs, parsErr, dataErr, errsum0, FitType, mcerr, fitMC, loops>>

mainVars == <<mainInputs, pos, loop, didx, errBool, retMsg, printed, exitcode, fitted, mci,
              tpars, ob_R1p_MC, refits, optcalls, arrays, R1pD_MC, fitted_msg, polish_x0,
              fits>>

vars == <<bruteVars, ampgoVars, funVars, mainVars>>

\* the variables a part of the program leaves alone
notBrute == <<ampgoVars, funVars, mainVars>>
notAMPGO == <<bruteVars, funVars, mainVars>>
notFun == <<bruteVars, ampgoVars, mainVars>>
notMain == <<bruteVars, ampgoVars, funVars>>

(***************************************************************************)
(* Values.                                                                 *)
(***************************************************************************)
None == -1
QInSize == 1

\* the reduced chi-squares a grid point may have
Scores == {1, 2}

Procs == 1 .. nprocs
Grid == 0 .. (gridN - 1)
Obs == 1 .. MaxObs

\* gl.brutegP0[idx]: the grid vector of index idx, named by its index
brutegP0(idx) == idx

\* X = list(range(len(gl.brutegP0)))
X(k) == k

SetMin(S) == CHOOSE m \in S : \A s \in S : m <= s

\* the rows one call of WriteFits per dataset appends
WriteFits(recs, index, stage) ==
    LET row(ob) == [index |-> index, stage |-> stage, ob |-> ob]
        RECURSIVE app(_, _)
        app(r, ob) == IF ob > MaxObs THEN r ELSE app(Append(r, row(ob)), ob + 1)
    IN  app(recs, 1)

\* what Brute_loop(idx) returns: the dict {redChiSq: gf}
Brute_loop(idx) == (score[idx] :> brutegP0(idx))

\* f of parmap(f, X)
f(x) == Brute_loop(x)

\* sorted(res): tuples (i, x) in increasing i
UnsortedRes(r) == r
Sorted(r) ==
    LET n == Len(r)
        rank(p) == Cardinality({q \in 1 .. n : r[q][1] < r[p][1]
                                                \/ (r[q][1] = r[p][1] /\ q < p)}) + 1
    IN  [k \in 1 .. n |-> r[CHOOSE p \in 1 .. n : rank(p) = k]]

\* [x for i,x in sorted(res)]
ParmapReturn(r) == [k \in 1 .. Len(r) |-> Sorted(r)[k][2]]

(***************************************************************************)
(* Initial state: Main has reached the brute branch of the fitting loop.   *)
(***************************************************************************)
InitBrute ==
    /\ nprocs \in 1 .. MaxProcs
    /\ gridN \in 0 .. MaxGrid
    /\ score \in [0 .. (gridN - 1) -> Scores]
    /\ raises \in {{}} \cup {{g} : g \in 0 .. (gridN - 1)}
    /\ FitLoops \in 1 .. MaxFitLoops
    /\ lp = 0
    /\ mainpc = "parmap"
    /\ sent = 0
    /\ poisoned = 0
    /\ res = << >>
    /\ joined = 0
    /\ q_in = << >>
    /\ q_out = << >>
    /\ wpc = [w \in Procs |-> "idle"]
    /\ witem = [w \in Procs |-> <<None, None>>]
    /\ ncalls = [g \in Grid |-> 0]
    /\ allfits = << >>
    /\ tP0 = None
    /\ records = << >>

(***************************************************************************)
(* parmap, the main process.                                               *)
(***************************************************************************)
\* lines 642-649: queues created, nprocs processes started
ParmapStart ==
    /\ mainpc = "parmap"
    /\ q_in' = << >>
    /\ q_out' = << >>
    /\ wpc' = [w \in Procs |-> "get"]
    /\ witem' = [w \in Procs |-> <<None, None>>]
    /\ ncalls' = [g \in Grid |-> 0]
    /\ sent' = 0
    /\ poisoned' = 0
    /\ res' = << >>
    /\ joined' = 0
    /\ mainpc' = IF gridN = 0 THEN "poison" ELSE "send"
    /\ UNCHANGED <<notBrute, nprocs, gridN, score, raises, FitLoops, lp, allfits, tP0, records>>

\* line 651: q_in.put((i, x)) blocks while the queue is full
MainPut ==
    /\ mainpc = "send"
    /\ Len(q_in) < QInSize
    /\ q_in' = Append(q_in, <<sent, X(sent)>>)
    /\ sent' = sent + 1
    /\ mainpc' = IF sent + 1 = gridN THEN "poison" ELSE "send"
    /\ UNCHANGED <<notBrute, nprocs, gridN, score, raises, FitLoops, lp, poisoned, res, joined,
                   q_out, wpc, witem, ncalls, allfits, tP0, records>>

\* line 652: one (None, None) per process
OnePoisonShort == nprocs - 1
NPoison == nprocs

MainPoison ==
    /\ mainpc = "poison"
    /\ Len(q_in) < QInSize
    /\ q_in' = Append(q_in, <<None, None>>)
    /\ poisoned' = poisoned + 1
    /\ mainpc' = IF poisoned + 1 < NPoison THEN "poison"
                 ELSE IF sent = 0 THEN "join" ELSE "collect"
    /\ UNCHANGED <<notBrute, nprocs, gridN, score, raises, FitLoops, lp, sent, res, joined,
                   q_out, wpc, witem, ncalls, allfits, tP0, records>>

\* line 653: q_out.get() blocks while the queue is empty, len(sent) times
MainCollect ==
    /\ mainpc = "collect"
    /\ q_out # << >>
    /\ res' = Append(res, Head(q_out))
    /\ q_out' = Tail(q_out)
    /\ mainpc' = IF Len(res) + 1 = sent THEN "join" ELSE "collect"
    /\ UNCHANGED <<notBrute, nprocs, gridN, score, raises, FitLoops, lp, sent, poisoned, joined,
                   q_in, wpc, witem, ncalls, allfits, tP0, records>>

\* lines 654-656 and 700: p.join() returns once the process has ended; after the
\* last join parmap returns and Main assigns allfits
MainJoin ==
    /\ mainpc = "join"
    /\ wpc[joined + 1] \in {"exited", "crashed"}
    /\ joined' = joined + 1
    /\ IF joined + 1 = nprocs
       THEN /\ allfits' = ParmapReturn(res)
            /\ mainpc' = "aggregate"
       ELSE /\ UNCHANGED allfits
            /\ mainpc' = "join"
    /\ UNCHANGED <<notBrute, nprocs, gridN, score, raises, FitLoops, lp, sent, poisoned, res,
                   q_in, q_out, wpc, witem, ncalls, tP0, records>>

(***************************************************************************)
(* fun, the worker process.                                                *)
(***************************************************************************)
\* lines 636-638
WorkerGet(w) ==
    /\ wpc[w] = "get"
    /\ q_in # << >>
    /\ q_in' = Tail(q_in)
    /\ witem' = [witem EXCEPT ![w] = Head(q_in)]
    /\ wpc' = [wpc EXCEPT ![w] = IF Head(q_in)[1] = None THEN "exited" ELSE "run"]
    /\ UNCHANGED <<notBrute, nprocs, gridN, score, raises, FitLoops, lp, mainpc, sent, poisoned,
                   res, joined, q_out, ncalls, allfits, tP0, records>>

\* line 639 with f = Brute_loop (lines 659-696): the records of the grid point are
\* written inside the worker, then (i, f(x)) is put on q_out
WorkerRun(w) ==
    /\ wpc[w] = "run"
    /\ witem[w][2] \notin raises
    /\ ncalls' = [ncalls EXCEPT ![witem[w][1]] = @ + 1]
    /\ records' = WriteFits(records, witem[w][2] + 1, "local")
    /\ q_out' = Append(q_out, <<witem[w][1], f(witem[w][2])>>)
    /\ wpc' = [wpc EXCEPT ![w] = "get"]
    /\ UNCHANGED <<notBrute, nprocs, gridN, score, raises, FitLoops, lp, mainpc, sent, poisoned,
                   res, joined, q_in, witem, allfits, tP0>>

\* line 639: f(x) raises; fun catches nothing, the process ends
WorkerRaise(w) ==
    /\ wpc[w] = "run"
    /\ witem[w][2] \in raises
    /\ ncalls' = [ncalls EXCEPT ![witem[w][1]] = @ + 1]
    /\ wpc' = [wpc EXCEPT ![w] = "crashed"]
    /\ UNCHANGED <<notBrute, nprocs, gridN, score, raises, FitLoops, lp, mainpc, sent, poisoned,
                   res, joined, q_in, q_out, witem, allfits, tP0, records>>

(***************************************************************************)
(* Main, after parmap.                                                     *)
(***************************************************************************)
\* lines 701-706: allfits = dict(allfits[0]); tP0 = allfits[min(allfits.keys())]
FirstDict(a) == a[1]

MainAggregate ==
    /\ mainpc = "aggregate"
    /\ IF Len(allfits) = 0
       THEN /\ mainpc' = "IndexError"
            /\ UNCHANGED <<allfits, tP0>>
       ELSE /\ allfits' = FirstDict(allfits)
            /\ tP0' = allfits'[SetMin(DOMAIN allfits')]
            /\ mainpc' = "refine"
    /\ UNCHANGED <<notBrute, nprocs, gridN, score, raises, FitLoops, lp, sent, poisoned, res,
                   joined, q_in, q_out, wpc, witem, ncalls, records>>

\* lines 708-730: the final refinement and its record, index len(gl.brutegP0) + 1;
\* then the next pass of the loop of line 386
MainRefine ==
    /\ mainpc = "refine"
    /\ records' = WriteFits(records, gridN + 1, "local")
    /\ lp' = lp + 1
    /\ mainpc' = IF lp + 1 < FitLoops THEN "parmap" ELSE "finished"
    /\ UNCHANGED <<notBrute, nprocs, gridN, score, raises, FitLoops, sent, poisoned, res, joined,
                   q_in, q_out, wpc, witem, ncalls, allfits, tP0>>

NextBrute ==
    \/ ParmapStart
    \/ MainPut
    \/ MainPoison
    \/ MainCollect
    \/ MainJoin
    \/ \E w \in Procs : WorkerGet(w)
    \/ \E w \in Procs : WorkerRun(w)
    \/ \E w \in Procs : WorkerRaise(w)
    \/ MainAggregate
    \/ MainRefine

(***************************************************************************)
(* AMPGO (src/AMPGO.py).  Points are one-dimensional and integer; numbers  *)
(* are integers extended by inf, -inf and nan.                             *)
(***************************************************************************)
Points == 0 .. 1
Vals == {-2, -1, 0}
GlbTols == {0, 1}
Eps1s == {1}
FMins == {<<"-inf", 0>>, <<"fin", -1>>}

Fin(n) == <<"fin", n>>
PosInf == <<"inf", 0>>
NegInf == <<"-inf", 0>>
NaN == <<"nan", 0>>

Order(a) == IF a[1] = "-inf" THEN 0 ELSE IF a[1] = "fin" THEN 1 ELSE 2

\* a < b and a <= b of floats: false when either is nan
Lt(a, b) ==
    IF a[1] = "nan" \/ b[1] = "nan" THEN FALSE
    ELSE IF a[1] = "fin" /\ b[1] = "fin" THEN a[2] < b[2]
    ELSE Order(a) < Order(b)
Le(a, b) ==
    IF a[1] = "nan" \/ b[1] = "nan" THEN FALSE
    ELSE IF a[1] = "fin" /\ b[1] = "fin" THEN a[2] <= b[2]
    ELSE Order(a) <= Order(b)

\* line 173 with a sum that takes an infinite fmin for 0
PlusFromZero(a, k) == IF a[1] = "fin" THEN Fin(a[2] + k) ELSE Fin(k)

\* a + k for a finite k
Plus(a, k) == IF a[1] = "fin" THEN Fin(a[2] + k) ELSE a

Abs(n) == IF n < 0 THEN -n ELSE n

\* numpy.sqrt of a perfect square
Sqrt(n) == CHOOSE r \in 0 .. n : r * r <= n /\ n < (r + 1) * (r + 1)

SetMax(S) == CHOOSE m \in S : \A s \in S : s <= m

\* the bounds handed to AMPGO, lines 97-111
low == SetMin(Points)
up == SetMax(Points)

\* the start vectors a caller may hand to AMPGO: feasible or not
Starts == (low - 1) .. (up + 1)

\* lines 204-205 without line 205
ClipLowOnly(x) == IF x < low THEN low ELSE x

\* lines 204-205
Clip(x) == IF x < low THEN low ELSE IF x > up THEN up ELSE x

\* the denominator of tunnel and inverse_tunnel: the product of the distances
\* of x to the tabu points
RECURSIVE Denominator(_, _)
Denominator(x, tl) ==
    IF tl = << >> THEN 1 ELSE Abs(x - Head(tl)) * Denominator(x, Tail(tl))

\* line 293 with a product in place of the quotient
tunnelTimes(x, aspiration, tl) ==
    [num |-> (objfun[x] - aspiration) * (objfun[x] - aspiration) * Denominator(x, tl),
     den |-> 1]

\* tunnel, lines 279-295: numerator/denominator, kept as the two numbers
tunnel(x, aspiration, tl) ==
    [num |-> (objfun[x] - aspiration) * (objfun[x] - aspiration),
     den |-> Denominator(x, tl)]

\* inverse_tunnel, lines 298-308: a division by zero in tunnel gives inf or nan,
\* and inf*0 is nan
inverse_tunnel(xtf, ytf, aspiration, tl) ==
    IF ytf.den = 0 THEN NaN
    ELSE Fin(aspiration + Sqrt((ytf.num * Denominator(xtf, tl)) \div ytf.den))

\* a <= b of two tunnel values; one with denominator 0 is not finite
TunnelLe(a, b) ==
    IF b.den = 0 THEN TRUE
    ELSE IF a.den = 0 THEN FALSE
    ELSE a.num * b.den <= b.num * a.den

\* drop_tabu_points, lines 264-276
Remove(tl, k) == [j \in 1 .. (Len(tl) - 1) |-> IF j < k THEN tl[j] ELSE tl[j + 1]]

\* line 274 with argmin in place of argmax
Nearest(x, tl) ==
    CHOOSE k \in 1 .. Len(tl) :
        /\ \A j \in 1 .. Len(tl) : Abs(tl[j] - x) >= Abs(tl[k] - x)
        /\ \A j \in 1 .. (k - 1) : Abs(tl[j] - x) > Abs(tl[k] - x)

Farthest(x, tl) ==
    CHOOSE k \in 1 .. Len(tl) :
        /\ \A j \in 1 .. Len(tl) : Abs(tl[j] - x) <= Abs(tl[k] - x)
        /\ \A j \in 1 .. (k - 1) : Abs(tl[j] - x) < Abs(tl[k] - x)

\* line 266 with <= in place of <
drop_tabu_pointsLate(x, tl, size, strategy) ==
    IF Len(tl) <= size THEN tl
    ELSE IF strategy = "oldest" THEN Remove(tl, 1)
    ELSE Remove(tl, Farthest(x, tl))

drop_tabu_points(x, tl, size, strategy) ==
    IF Len(tl) < size THEN tl
    ELSE IF strategy = "oldest" THEN Remove(tl, 1)
    ELSE Remove(tl, Farthest(x, tl))

\* len(x0), line 90
n == 1

SCIPY_LOCAL_SOLVERS == {"Nelder-Mead", "Powell", "L-BFGS-B", "TNC", "SLSQP"}
OPENOPT_LOCAL_SOLVERS == {"bobyqa", "ptn", "slmvm2", "ralg", "mma", "auglag", "sqlcp"}

Max2(a, b) == IF a >= b THEN a ELSE b
Min2(a, b) == IF a <= b THEN a ELSE b

\* the numbers of evaluations a local solve may report.  An OpenOpt solver is
\* given maxFunEvals = max(1, maxfunevals) (lines 151, 212); scipy's minimize is
\* given options['maxiter'] = max(1, maxfunevals) (lines 157, 218), which limits
\* its iterations, not its evaluations
Nfevs(limit) ==
    IF local \in OPENOPT_LOCAL_SOLVERS THEN 1 .. Min2(Max2(1, limit), MaxNfev)
    ELSE 1 .. MaxNfev

\* the points minimize(fun, x0, bounds=bounds) may return: feasible, and not
\* worse than the start, which a bounded solver first moves into the bounds
MinimizeObj(start) == {x \in Points : objfun[x] <= objfun[Clip(start)]}
MinimizeTunnel(start, aspiration, tl) ==
    {x \in Points : TunnelLe(tunnel(x, aspiration, tl), tunnel(start, aspiration, tl))}

Success == "Optimization terminated successfully"
EvalsExceeded == "Maximum number of function evaluations exceeded"
ItersExceeded == "Maximum number of global iterations exceeded"

\* lines 173, 260
Reached(bf) == Lt(bf, Plus(fmin, glbtol))

\* line 240: the test after the best point was updated
ReachedStale(bf) == Reached(best_f)
ReachedInTunnel(bf) == Reached(bf)

\* lines 177, 245 with < in place of <=
ExhaustedBelowZero(left) == left < 0

\* lines 177, 245: the test of the budget left after a solve
Exhausted(left) == left <= 0

\* line 230
Accepted(y, bf) == Le(y, Plus(bf, glbtol))

\* line 187
TunnelIgnoringImprove(k, imp) == k < maxiter
TunnelAgain(k, imp) == k < maxiter /\ imp = 0

\* line 257
IterCapOffByOne(g) == g > totaliter
IterCap(g) == g >= totaliter

ampgoParams == <<local, objfun, maxfunevals_in, totaliter, maxiter, glbtol, eps1, fmin,
                 tabulistsize, tabustrategy, bounds_len, installed>>

InitAMPGO ==
    /\ local \in {"L-BFGS-B", "bobyqa"}
    /\ objfun \in [Points -> Vals]
    /\ maxfunevals_in \in 1 .. MaxBudget
    /\ maxfunevals = maxfunevals_in
    /\ totaliter \in 1 .. MaxTotalIter
    /\ maxiter \in 0 .. MaxMaxIter
    /\ glbtol \in GlbTols
    /\ eps1 \in Eps1s
    /\ fmin \in FMins
    /\ tabulistsize \in 1 .. MaxTabu
    /\ tabustrategy \in {"oldest", "farthest"}
    /\ x0 \in Points
    /\ tabulist = << >>
    /\ best_f = PosInf
    /\ best_x = x0
    /\ global_iter = 0
    /\ all_tunnel = 0
    /\ success_tunnel = 0
    /\ evaluations = 0
    /\ i = 0
    /\ improve = 0
    /\ xf = x0
    /\ yf = PosInf
    /\ apc = "min"
    /\ msg = ""
    /\ started = 0
    /\ bounds_len = n
    /\ installed = {"scipy", "openopt"}
    /\ exc = ""

\* the call of BMNS.py:400-402, AMPGO(chi2, tP0, local='L-BFGS-B', bounds=bnds,
\* maxiter=.., tabulistsize=.., totaliter=.., maxfunevals=..): the other
\* parameters keep their defaults, tP0 need not lie within bnds, and chi2 is
\* finite everywhere (BMNS.py:274-275)
InitBounds ==
    /\ local = "L-BFGS-B"
    /\ objfun \in [Starts -> {-1, 0}]
    /\ maxfunevals_in \in 1 .. MaxBudget
    /\ maxfunevals = maxfunevals_in
    /\ totaliter \in 1 .. MaxTotalIter
    /\ maxiter \in 0 .. MaxMaxIter
    /\ glbtol \in GlbTols
    /\ eps1 \in Eps1s
    /\ fmin = NegInf
    /\ tabulistsize \in 1 .. MaxTabu
    /\ tabustrategy = "farthest"
    /\ x0 \in Starts
    /\ tabulist = << >>
    /\ best_f = PosInf
    /\ best_x = x0
    /\ global_iter = 0
    /\ all_tunnel = 0
    /\ success_tunnel = 0
    /\ evaluations = 0
    /\ i = 0
    /\ improve = 0
    /\ xf = x0
    /\ yf = PosInf
    /\ apc = "min"
    /\ msg = ""
    /\ started = 0
    /\ bounds_len = n
    /\ installed = {"scipy", "openopt"}
    /\ exc = ""

\* lines 80-119 without the test of tabustrategy of lines 118-119
RaisedNoStrategyTest ==
    IF local \notin SCIPY_LOCAL_SOLVERS \cup OPENOPT_LOCAL_SOLVERS THEN "Exception"
    ELSE IF local \in SCIPY_LOCAL_SOLVERS /\ "scipy" \notin installed THEN "Exception"
    ELSE IF local \in OPENOPT_LOCAL_SOLVERS /\ "openopt" \notin installed THEN "Exception"
    ELSE IF bounds_len # None /\ bounds_len # n THEN "ValueError"
    ELSE IF tabulistsize < 1 THEN "Exception"
    ELSE ""

\* lines 80-119: the exception the checks of the arguments raise, "" when none
Raised ==
    IF local \notin SCIPY_LOCAL_SOLVERS \cup OPENOPT_LOCAL_SOLVERS THEN "Exception"
    ELSE IF local \in SCIPY_LOCAL_SOLVERS /\ "scipy" \notin installed THEN "Exception"
    ELSE IF local \in OPENOPT_LOCAL_SOLVERS /\ "openopt" \notin installed THEN "Exception"
    ELSE IF bounds_len # None /\ bounds_len # n THEN "ValueError"
    ELSE IF tabulistsize < 1 THEN "Exception"
    ELSE IF tabustrategy \notin {"oldest", "farthest"} THEN "Exception"
    ELSE ""

\* a call of AMPGO with any arguments, valid or not
InitEntry ==
    /\ local \in {"L-BFGS-B", "bobyqa", "simplex"}
    /\ installed \in {{"scipy", "openopt"}, {"scipy"}}
    /\ bounds_len \in {None, n, n + 1}
    /\ objfun \in [Points -> {-1, 0}]
    /\ maxfunevals_in \in {None, 1}
    /\ maxfunevals = maxfunevals_in
    /\ totaliter = 1
    /\ maxiter = 1
    /\ glbtol = 0
    /\ eps1 = 1
    /\ fmin = NegInf
    /\ tabulistsize \in 0 .. MaxTabu
    /\ tabustrategy \in {"oldest", "farthest", "newest"}
    /\ x0 \in Points
    /\ tabulist = << >>
    /\ best_f = PosInf
    /\ best_x = x0
    /\ global_iter = 0
    /\ all_tunnel = 0
    /\ success_tunnel = 0
    /\ evaluations = 0
    /\ i = 0
    /\ improve = 0
    /\ xf = x0
    /\ yf = PosInf
    /\ apc = "entry"
    /\ msg = ""
    /\ started = 0
    /\ exc = ""

\* lines 80-140: the checks of the arguments, the default budget and the
\* initialisation
Validate ==
    /\ apc = "entry"
    /\ exc' = Raised
    /\ IF Raised # ""
       THEN /\ apc' = "raised"
            /\ UNCHANGED <<maxfunevals, tabulist, best_f, best_x, global_iter, all_tunnel,
                           success_tunnel, evaluations>>
       ELSE /\ maxfunevals' = IF maxfunevals_in = None THEN Max2(100, 10 * n)
                               ELSE maxfunevals_in
            /\ tabulist' = << >>
            /\ best_f' = PosInf
            /\ best_x' = x0
            /\ global_iter' = 0
            /\ all_tunnel' = 0
            /\ success_tunnel' = 0
            /\ evaluations' = 0
            /\ apc' = "min"
    /\ UNCHANGED <<notAMPGO, ampgoParams, x0, i, improve, xf, yf, msg, started>>

\* lines 142-185: one minimization phase
Minimization ==
    /\ apc = "min"
    /\ \E x \in MinimizeObj(x0), num_fun \in Nfevs(maxfunevals) :
        LET y == Fin(objfun[x])
            bf == IF Lt(y, best_f) THEN y ELSE best_f
            bx == IF Lt(y, best_f) THEN x ELSE best_x
            left == maxfunevals - num_fun
        IN  /\ xf' = x
            /\ yf' = y
            /\ maxfunevals' = left
            /\ evaluations' = evaluations + num_fun
            /\ best_f' = bf
            /\ best_x' = bx
            /\ started' = started + 1
            /\ IF Reached(bf)
               THEN /\ apc' = "returned"
                    /\ msg' = Success
                    /\ UNCHANGED <<tabulist, i, improve>>
               ELSE IF Exhausted(left)
               THEN /\ apc' = "returned"
                    /\ msg' = EvalsExceeded
                    /\ UNCHANGED <<tabulist, i, improve>>
               ELSE /\ tabulist' = Append(drop_tabu_points(x, tabulist, tabulistsize,
                                                            tabustrategy), x)
                    /\ i' = 0
                    /\ improve' = 0
                    /\ apc' = IF TunnelAgain(0, 0) THEN "tunnel" ELSE "endloop"
                    /\ UNCHANGED msg
    /\ UNCHANGED <<notAMPGO, ampgoParams, exc, x0, global_iter, all_tunnel, success_tunnel>>

\* lines 187-249: one pass of the tunnelling loop
Tunnelling ==
    /\ apc = "tunnel"
    /\ \E step \in {-1, 1} :
        LET start == Clip(xf + step)
            aspiration == best_f[2] - eps1 * (1 + Abs(best_f[2]))
        IN  \E x \in MinimizeTunnel(start, aspiration, tabulist),
               num_fun \in Nfevs(maxfunevals) :
            LET y == inverse_tunnel(x, tunnel(x, aspiration, tabulist), aspiration,
                                    tabulist)
                acc == Accepted(y, best_f)
                bf == IF acc THEN y ELSE best_f
                bx == IF acc THEN x ELSE best_x
                imp == IF acc THEN 1 ELSE improve
                left == maxfunevals - num_fun
            IN  /\ all_tunnel' = all_tunnel + 1
                /\ x0' = start
                /\ xf' = x
                /\ yf' = y
                /\ maxfunevals' = left
                /\ evaluations' = evaluations + num_fun
                /\ best_f' = bf
                /\ best_x' = bx
                /\ improve' = imp
                /\ success_tunnel' = IF acc THEN success_tunnel + 1 ELSE success_tunnel
                /\ IF ReachedInTunnel(bf)
                   THEN /\ apc' = "returned"
                        /\ msg' = Success
                        /\ UNCHANGED <<tabulist, i>>
                   ELSE IF Exhausted(left)
                   THEN /\ apc' = "returned"
                        /\ msg' = EvalsExceeded
                        /\ i' = i + 1
                        /\ UNCHANGED tabulist
                   ELSE /\ i' = i + 1
                        /\ tabulist' = Append(drop_tabu_points(x, tabulist, tabulistsize,
                                                                tabustrategy), x)
                        /\ apc' = IF TunnelAgain(i + 1, imp) THEN "tunnel" ELSE "endloop"
                        /\ UNCHANGED msg
    /\ UNCHANGED <<notAMPGO, ampgoParams, exc, global_iter, started>>

\* lines 254-261: the end of a global iteration
EndGlobalIteration ==
    /\ apc = "endloop"
    /\ global_iter' = global_iter + 1
    /\ x0' = xf
    /\ IF IterCap(global_iter + 1)
       THEN /\ apc' = "returned"
            /\ msg' = ItersExceeded
       ELSE IF Reached(best_f)
       THEN /\ apc' = "returned"
            /\ msg' = Success
       ELSE /\ apc' = "min"
            /\ UNCHANGED msg
    /\ UNCHANGED <<notAMPGO, ampgoParams, exc, maxfunevals, tabulist, best_f, best_x, all_tunnel,
                   success_tunnel, evaluations, i, improve, xf, yf, started>>

NextAMPGO ==
    \/ Minimization
    \/ Tunnelling
    \/ EndGlobalIteration

NextEntry ==
    \/ Validate
    \/ Minimization
    \/ Tunnelling
    \/ EndGlobalIteration

\* the variables of the part a specification leaves out
NoBrute ==
    /\ nprocs = 1 /\ gridN = 0 /\ score = << >> /\ raises = {} /\ FitLoops = 1
    /\ lp = 0 /\ mainpc = "global" /\ sent = 0 /\ poisoned = 0 /\ res = << >>
    /\ joined = 0 /\ q_in = << >> /\ q_out = << >> /\ wpc = << >> /\ witem = << >>
    /\ ncalls = << >> /\ allfits = << >> /\ tP0 = None /\ records = << >>

\* AMPGO is not run: its variables but objfun
NoAMPGORun ==
    /\ local = "" /\ maxfunevals_in = 0 /\ maxfunevals = 0 /\ totaliter = 0
    /\ maxiter = 0 /\ glbtol = 0 /\ eps1 = 0 /\ fmin = NegInf /\ tabulistsize = 0
    /\ tabustrategy = "" /\ x0 = 0 /\ tabulist = << >> /\ best_f = PosInf
    /\ best_x = 0 /\ global_iter = 0 /\ all_tunnel = 0 /\ success_tunnel = 0
    /\ evaluations = 0 /\ i = 0 /\ improve = 0 /\ xf = 0 /\ yf = PosInf
    /\ apc = "unused" /\ msg = "" /\ started = 0
    /\ bounds_len = None /\ installed = {} /\ exc = ""

NoFun == fname = "" /\ fargs = << >> /\ fret = << >> /\ fpc = "unused"

NoMain ==
    /\ pos = "unused" /\ nObs = 0 /\ parsErr = FALSE /\ dataErr = {} /\ errsum0 = {}
    /\ FitType = "" /\ mcerr = FALSE /\ fitMC = 1 /\ loops = 1 /\ loop = 0 /\ didx = 0
    /\ errBool = FALSE /\ retMsg = << >> /\ printed = << >> /\ exitcode = None
    /\ fitted = None /\ mci = 0 /\ tpars = << >> /\ ob_R1p_MC = << >> /\ refits = << >>
    /\ optcalls = 0 /\ arrays = << >> /\ R1pD_MC = << >>
    /\ fitted_msg = "" /\ polish_x0 = None /\ fits = << >>

NoAMPGO ==
    /\ objfun = << >>
    /\ NoAMPGORun

InitB == InitBrute /\ NoAMPGO /\ NoFun /\ NoMain

InitA == InitAMPGO /\ NoBrute /\ NoFun /\ NoMain

(***************************************************************************)
(* drop_tabu_points called on its own.                                     *)
(***************************************************************************)
TabuPoints == 0 .. 3

SeqsUpTo(S, len) == UNION {[1 .. k -> S] : k \in 0 .. len}

\* the calls AMPGO makes (lines 182, 248): tabulistsize >= 1 (line 116) and a
\* list of at most tabulistsize points
InitTabu ==
    /\ fname = "drop_tabu_points"
    /\ fargs \in [xf : TabuPoints, tabulist : SeqsUpTo(TabuPoints, MaxTabu),
                  tabulistsize : 1 .. MaxTabu, tabustrategy : {"oldest", "farthest"}]
    /\ Len(fargs.tabulist) <= fargs.tabulistsize
    /\ fret = << >>
    /\ fpc = "call"

Call_drop_tabu_points ==
    /\ fpc = "call"
    /\ fname = "drop_tabu_points"
    /\ fret' = drop_tabu_points(fargs.xf, fargs.tabulist, fargs.tabulistsize,
                                fargs.tabustrategy)
    /\ fpc' = "ret"
    /\ UNCHANGED <<notFun, fname, fargs>>

NextTabu == Call_drop_tabu_points

InitT == InitTabu /\ NoBrute /\ NoAMPGO /\ NoMain

(***************************************************************************)
(* The objective functions chi2 and residual of BMNS.py, called on their   *)
(* own.  A float is Fin(n), PosInf, NegInf or NaN.                         *)
(***************************************************************************)
\* the value chi2 returns in place of a non-finite sum, line 275
Sentinel == 10000

\* the largest float, which numpy.nan_to_num puts in place of inf, line 377
FloatMax == 1000000

isnan(a) == a[1] = "nan"

\* line 274 without its isinf test
isinfNever(a) == FALSE

isinf(a) == a[1] \in {"inf", "-inf"}

\* float arithmetic of numpy: a - k, |a|, a ** 2, a + b, and a / k, where a
\* division by zero gives inf or nan and no exception
FSub(a, k) == IF a[1] = "fin" THEN Fin(a[2] - k) ELSE a

FAbs(a) ==
    IF a[1] = "fin" THEN Fin(Abs(a[2])) ELSE IF a[1] = "nan" THEN NaN ELSE PosInf

FSqr(a) ==
    IF a[1] = "fin" THEN Fin(a[2] * a[2]) ELSE IF a[1] = "nan" THEN NaN ELSE PosInf

FAdd(a, b) ==
    IF a[1] = "nan" \/ b[1] = "nan" THEN NaN
    ELSE IF a[1] = "fin" /\ b[1] = "fin" THEN Fin(a[2] + b[2])
    ELSE IF a[1] = "fin" THEN b
    ELSE IF b[1] = "fin" THEN a
    ELSE IF a = b THEN a ELSE NaN

\* a / k for k >= 0; the data are in units that make the finite quotients whole
FDiv(a, k) ==
    IF a[1] # "fin" THEN a
    ELSE IF k # 0 THEN Fin(a[2] \div k)
    ELSE IF a[2] = 0 THEN NaN
    ELSE IF a[2] > 0 THEN PosInf ELSE NegInf

RECURSIVE FSum(_)
FSum(terms) == IF terms = << >> THEN Fin(0) ELSE FAdd(Head(terms), FSum(Tail(terms)))

RECURSIVE Concat(_)
Concat(ss) == IF ss = << >> THEN << >> ELSE Head(ss) \o Concat(Tail(ss))

\* a data row of a dataset: the simulated value for the row at the parameters
\* tried, the measured value, its error (0 when the data have no error
\* column) and the Monte-Carlo corrupted value
DataRows ==
    {[pred |-> Fin(4), obs |-> 2, err |-> 2, mc |-> 4],
     [pred |-> Fin(6), obs |-> 2, err |-> 0, mc |-> 2],
     [pred |-> Fin(2), obs |-> 2, err |-> 0, mc |-> 2],
     [pred |-> NaN, obs |-> 4, err |-> 2, mc |-> 2],
     [pred |-> NegInf, obs |-> 2, err |-> 1, mc |-> 2]}

\* a dataset ob of gl.gObs: its rows ob.R1pD
Datasets == UNION {[1 .. k -> DataRows] : k \in 1 .. MaxPts}

\* sim.BMFitFunc, sim.LagFitFunc, sim.BMFitFunc_ints at a row
BMFitFunc(row) == row.pred

\* chi2, lines 224-276
chi2Terms(ob, DataType) ==
    [j \in 1 .. Len(ob) |->
        IF DataType = "R1p" /\ ~ (Len(ob) > 1)
        THEN FDiv(FSqr(FSub(BMFitFunc(ob[j]), ob[j].obs)), ob[j].obs)
        ELSE FSqr(FDiv(FSub(BMFitFunc(ob[j]), ob[j].obs), ob[j].err))]

chi2(gObs, DataType) ==
    LET chisq == FSum(Concat([k \in 1 .. Len(gObs) |-> chi2Terms(gObs[k], DataType)]))
    IN  IF isnan(chisq) \/ isinf(chisq) THEN Fin(Sentinel) ELSE chisq

\* numpy.nan_to_num, line 377
nan_to_num(a) ==
    IF a[1] = "nan" THEN Fin(0)
    ELSE IF a[1] = "inf" THEN Fin(FloatMax)
    ELSE IF a[1] = "-inf" THEN Fin(-FloatMax)
    ELSE a

\* residual, lines 285-378
residRows(ob, R1p_MC, DataType, gFitEqn) ==
    [j \in 1 .. Len(ob) |->
        LET R1p == IF R1p_MC THEN ob[j].mc ELSE ob[j].obs
        IN  IF DataType = "Ints"
            THEN FAbs(FDiv(FSub(BMFitFunc(ob[j]), R1p), ob[j].err))
            ELSE IF Len(ob) > 1 /\ ~ R1p_MC
            THEN IF gFitEqn = "bm"
                 THEN FDiv(FAbs(FSub(BMFitFunc(ob[j]), R1p)), ob[j].err)
                 ELSE FDiv(FSub(BMFitFunc(ob[j]), R1p), ob[j].err)
            ELSE FSub(BMFitFunc(ob[j]), R1p)]

residual(gObs, R1p_MC, DataType, gFitEqn) ==
    LET resid == Concat([k \in 1 .. Len(gObs) |->
                            residRows(gObs[k], R1p_MC, DataType, gFitEqn)])
    IN  IF \E j \in 1 .. Len(resid) : isnan(resid[j]) \/ isinf(resid[j])
        THEN [j \in 1 .. Len(resid) |-> nan_to_num(resid[j])]
        ELSE resid

InitObjective ==
    /\ fname \in {"chi2", "residual"}
    /\ fargs \in [gObs : UNION {[1 .. k -> Datasets] : k \in 1 .. MaxObs},
                  DataType : {"R1p", "Ints"}, R1p_MC : BOOLEAN, gFitEqn : {"bm", "lag"}]
    /\ fname = "chi2" => ~ fargs.R1p_MC
    /\ fret = << >>
    /\ fpc = "call"

Call_chi2 ==
    /\ fpc = "call"
    /\ fname = "chi2"
    /\ fret' = chi2(fargs.gObs, fargs.DataType)
    /\ fpc' = "ret"
    /\ UNCHANGED <<notFun, fname, fargs>>

Call_residual ==
    /\ fpc = "call"
    /\ fname = "residual"
    /\ fret' = residual(fargs.gObs, fargs.R1p_MC, fargs.DataType, fargs.gFitEqn)
    /\ fpc' = "ret"
    /\ UNCHANGED <<notFun, fname, fargs>>

NextObjective ==
    \/ Call_chi2
    \/ Call_residual

InitO == InitObjective /\ NoBrute /\ NoAMPGO /\ NoMain

(***************************************************************************)
(* tunnel called on its own, at two points in turn, with the same          *)
(* arguments.                                                              *)
(***************************************************************************)
Aspirations == {-2, -1}

\* the objective has the same value at every point
InitTunnel ==
    /\ objfun \in {[p \in TabuPoints |-> v] : v \in Vals}
    /\ fname = "tunnel"
    /\ fargs \in [xs : [1 .. 2 -> TabuPoints], aspiration : Aspirations,
                  tabulist : SeqsUpTo(TabuPoints, MaxTabu)]
    /\ fargs.tabulist # << >>
    /\ fret = << >>
    /\ fpc = "call"

Call_tunnel ==
    /\ fpc = "call"
    /\ fname = "tunnel"
    /\ LET k == Len(fret) + 1
       IN  /\ fret' = Append(fret, tunnel(fargs.xs[k], fargs.aspiration, fargs.tabulist))
           /\ fpc' = IF k = Len(fargs.xs) THEN "ret" ELSE "call"
    /\ UNCHANGED <<notFun, fname, fargs>>

NextTunnel == Call_tunnel

InitTu == InitTunnel /\ NoBrute /\ NoAMPGORun /\ NoMain

(***************************************************************************)
(* tunnel called at one point, and inverse_tunnel called on its result     *)
(* with the same arguments, as in lines 222-228 of AMPGO.                  *)
(***************************************************************************)
InitInverse ==
    /\ objfun \in {[p \in TabuPoints |-> v] : v \in Vals}
    /\ fname = "tunnel"
    /\ fargs \in [xs : [1 .. 1 -> TabuPoints], aspiration : Aspirations,
                  tabulist : SeqsUpTo(TabuPoints, MaxTabu)]
    /\ fret = << >>
    /\ fpc = "call"

Call_inverse_tunnel ==
    /\ fpc = "ret"
    /\ fname = "tunnel"
    /\ fname' = "inverse_tunnel"
    /\ fret' = Append(fret, inverse_tunnel(fargs.xs[1], fret[1], fargs.aspiration,
                                           fargs.tabulist))
    /\ UNCHANGED <<notFun, fargs, fpc>>

NextInverse ==
    \/ Call_tunnel
    \/ Call_inverse_tunnel

InitI == InitInverse /\ NoBrute /\ NoAMPGORun /\ NoMain

SpecInverse == InitI /\ [][NextInverse]_vars

(***************************************************************************)
(* The limits AMPGO makes of one entry of bounds (lines 97-111) and the    *)
(* clipping of a tunnelling start point to them (lines 204-205).           *)
(***************************************************************************)
\* Python's None and a number, as members of a pair of bounds
PyNone == <<"None">>
Num(k) == <<"num", k>>

\* an entry of bounds: None, or a pair whose members are None or a number
BoundsEntries ==
    {PyNone} \cup {<<"pair", l, u>> : l \in {PyNone, Num(-1), Num(0)},
                                     u \in {PyNone, Num(0), Num(1)}}

\* the coordinate of xf + beta*r before it is clipped, line 202
Unclipped == -2 .. 2

\* lines 97-111 for one i: low[i] and up[i] start as 0 (lines 97-98); for an
\* entry that is None, -inf and inf are assigned to l and u (line 101) and
\* low[i] and up[i] are left as they are
Limits(b) ==
    IF b = PyNone
    THEN [low |-> Fin(0), up |-> Fin(0)]
    ELSE [low |-> IF b[2] = PyNone THEN NegInf ELSE Fin(b[2][2]),
          up |-> IF b[3] = PyNone THEN PosInf ELSE Fin(b[3][2])]

\* lines 204-205: numpy.where(x0 < low, low, x0), numpy.where(x0 > up, up, x0)
ClipTo(x, lim) ==
    LET x1 == IF Lt(x, lim.low) THEN lim.low ELSE x
    IN  IF Lt(lim.up, x1) THEN lim.up ELSE x1

InitLimits ==
    /\ fname = "AMPGO"
    /\ fargs \in [bounds : BoundsEntries, x0 : Unclipped]
    /\ fret = << >>
    /\ fpc = "limits"

\* lines 97-111
SetLimits ==
    /\ fpc = "limits"
    /\ fret' = <<Limits(fargs.bounds)>>
    /\ fpc' = "clip"
    /\ UNCHANGED <<notFun, fname, fargs>>

\* lines 202-205
ClipStart ==
    /\ fpc = "clip"
    /\ fret' = Append(fret, ClipTo(Fin(fargs.x0), fret[1]))
    /\ fpc' = "ret"
    /\ UNCHANGED <<notFun, fname, fargs>>

NextLimits ==
    \/ SetLimits
    \/ ClipStart

InitL == InitLimits /\ NoBrute /\ NoAMPGO /\ NoMain

SpecLimits == InitL /\ [][NextLimits]_vars

(***************************************************************************)
(* CheckErrArgs of Errors.py, called on its own.                           *)
(***************************************************************************)
\* the numbers of command-line arguments tried
ArgCounts == 2 .. 9

\* CheckErrArgs, Errors.py 7-48.  tstr is assigned only in the branch of
\* argc != 6 (line 13); print(tstr) of line 47 runs whenever exitBool is True,
\* and reading a local variable that was never assigned raises
\* UnboundLocalError
CheckErrArgs(argc, fitIsFile, dataIsFile, outIsFile) ==
    LET tstrAssigned == argc # 6
        msgs == IF argc # 6 THEN << >>
                ELSE (IF ~ fitIsFile THEN <<"fit">> ELSE << >>)
                     \o (IF ~ dataIsFile THEN <<"data">> ELSE << >>)
                     \o (IF outIsFile THEN <<"out">> ELSE << >>)
        exitBool == IF argc # 6 THEN TRUE ELSE msgs # << >>
    IN  IF exitBool = TRUE
        THEN IF tstrAssigned
             THEN [outcome |-> "SystemExit", code |-> -1, printed |-> Append(msgs, "tstr")]
             ELSE [outcome |-> "UnboundLocalError", printed |-> msgs]
        ELSE [outcome |-> "return", printed |-> msgs]

InitArgs ==
    /\ fname = "CheckErrArgs"
    /\ fargs \in [argc : ArgCounts, fitIsFile : BOOLEAN, dataIsFile : BOOLEAN,
                  outIsFile : BOOLEAN]
    /\ fret = << >>
    /\ fpc = "call"

Call_CheckErrArgs ==
    /\ fpc = "call"
    /\ fname = "CheckErrArgs"
    /\ fret' = CheckErrArgs(fargs.argc, fargs.fitIsFile, fargs.dataIsFile, fargs.outIsFile)
    /\ fpc' = "ret"
    /\ UNCHANGED <<notFun, fname, fargs>>

NextArgs == Call_CheckErrArgs

InitAr == InitArgs /\ NoBrute /\ NoAMPGO /\ NoMain

SpecArgs == InitAr /\ [][NextArgs]_vars

(***************************************************************************)
(* Main of BMNS.py with -fit or -fitmc: the setup (lines 71-208) and the   *)
(* global, local and localint branches of the primary fitting loop.        *)
(* Parameter vectors are named by integers.                                *)
(***************************************************************************)
\* the vectors an optimizer may return
Xs == {0, 1}

\* the standard error sf.cStdErr(fitted.x, fitted.fun, fitted.jac, gl.dof) may
\* return: the square root of a diagonal entry of the covariance, zero or not
cStdErr == {0, 1}

Sets == 1 .. nObs

\* the observed values of dataset ob, columns 2 and 4 of ob.R1pD
R1pD(ob) == 2 * ob

\* the deviations normal(y, ye) may draw from y, lines 480, 565
Noise == {-1, 1}

\* the array a constructor allocates for dataset ob: the datasets' own arrays
\* are named 1 .. nObs
NewArray(ob) == nObs + ob

\* line 562 without .copy(): a second reference to the array
copyNone(a) == a

\* ndarray.copy(), line 562: a new array with the values of a
copy(a) == NewArray(a)

\* the array the corrupted values are written to: array([...]) of line 480,
\* the rows c of ob.R1pD_MC of lines 562-565
MCArray(ob) == IF FitType = "localint" THEN copy(ob) ELSE NewArray(ob)

\* Errors.py 96-99 without the sys.exit
HandleErrorsNoExit(exitBool) == FALSE

\* Errors.py 96-99: HandleErrors prints the message and exits exactly when
\* exitBool == True
HandleErrors(exitBool) == exitBool = TRUE

\* line 481 with the vector of the previous refit in place of fitted.x
RefitStartPrevious == IF tpars = << >> THEN fitted ELSE tpars[Len(tpars)]

\* lines 481, 563: a Monte-Carlo refit starts from fitted.x
RefitStart == fitted

RECURSIVE SeqSum(_)
SeqSum(q) == IF q = << >> THEN 0 ELSE Head(q) + SeqSum(Tail(q))

\* MCpars.std(axis=0), lines 511, 593, as N * N times its square
MCStd(tp) ==
    Len(tp) * SeqSum([k \in 1 .. Len(tp) |-> tp[k] * tp[k]]) - SeqSum(tp) * SeqSum(tp)

\* gl.UnPackFits(index, pars, redChiSq, ..., stage, ob, errPars) and
\* gl.WriteFits(outPath, ob, index, stage): one record.  chisq is the
\* chi-square of which the record holds the quotient by gl.dof
FitRecord(index, stage, ob, x, chisq, err) ==
    [index |-> index, stage |-> stage, ob |-> ob, x |-> x, chisq |-> chisq, err |-> err]

\* chi2(x) of the fitted data at the vector x: the data are such that the
\* vectors an optimizer may return differ in chi-square
chi2at(x) == x + 1

\* fitted[1] of the global fit: the best_f AMPGO returned along with x
BestF(x) == <<"best_f", x>>

\* RCS_list[k], the numerator: chi2(x) for the k-th x of MCpars at line 511,
\* chi2(fitted.x, ...) for every x of MCpars at line 597
RCS_list(k) == IF FitType = "localint" THEN chi2at(fitted) ELSE chi2at(tpars[k])

\* lines 491-526, 577-609: the records of the loop over gl.gObs after a local
\* fit, se being what sf.cStdErr returns
LocalRecords(se) ==
    LET fiterr(ob) ==
            IF mcerr THEN MCStd(tpars) ELSE IF ob \notin errsum0 THEN se ELSE 0
        mcrecs(ob) ==
            IF mcerr
            THEN [k \in 1 .. Len(tpars) |->
                    FitRecord(k, "mcerr", ob, tpars[k], RCS_list(k), fiterr(ob))]
            ELSE << >>
        RECURSIVE recs(_)
        recs(ob) ==
            IF ob > nObs THEN << >>
            ELSE mcrecs(ob)
                 \o <<FitRecord(loop + 1, "local", ob, fitted, chi2at(fitted), fiterr(ob))>>
                 \o recs(ob + 1)
    IN  recs(1)

\* lines 410-420 and 433-447: the records of the loops over gl.gObs after the
\* global fit (no errPars) and after its polish
StageRecords(stage, x, chisq, err) ==
    [ob \in Sets |-> FitRecord(loop + 1, stage, ob, x, chisq, err)]

InitMain ==
    /\ nObs \in 1 .. MaxSets
    /\ parsErr \in BOOLEAN
    /\ dataErr \in SUBSET (1 .. nObs)
    /\ errsum0 \in {{}, {1}, 1 .. nObs}
    /\ FitType \in {"global", "local", "localint"}
    /\ mcerr \in BOOLEAN
    /\ fitMC \in (IF mcerr THEN 1 .. MaxMC ELSE {1})
    /\ loops \in 1 .. MaxLoops
    /\ pos = "CheckPars"
    /\ loop = 0
    /\ didx = 0
    /\ errBool = FALSE
    /\ retMsg = << >>
    /\ printed = << >>
    /\ exitcode = 0
    /\ fitted = None
    /\ mci = 0
    /\ tpars = << >>
    /\ ob_R1p_MC = [ob \in 1 .. nObs |-> 0]
    /\ refits = << >>
    /\ optcalls = 0
    /\ arrays = [ob \in 1 .. nObs |-> R1pD(ob)]
    /\ R1pD_MC = [ob \in 1 .. nObs |-> None]
    /\ fitted_msg = ""
    /\ polish_x0 = None
    /\ fits = << >>

\* lines 121-131: the parameter file is checked
CheckPars ==
    /\ pos = "CheckPars"
    /\ errBool' = parsErr
    /\ retMsg' = IF parsErr THEN Append(retMsg, "pars") ELSE retMsg
    /\ IF HandleErrors(errBool')
       THEN /\ printed' = retMsg'
            /\ exitcode' = -1
            /\ pos' = "exited"
            /\ UNCHANGED didx
       ELSE /\ pos' = "ParseData"
            /\ didx' = 1
            /\ UNCHANGED <<printed, exitcode>>
    /\ UNCHANGED <<notMain, mainInputs, loop, fitted, mci, tpars, ob_R1p_MC, refits,
                   optcalls, arrays, R1pD_MC, fitted_msg, polish_x0, fits>>

\* lines 149-177: one pass of the loop over the datasets, and after the last
\* one lines 179-208
ParseData ==
    /\ pos = "ParseData"
    /\ errBool' = (didx \in dataErr)
    /\ retMsg' = IF didx \in dataErr THEN Append(retMsg, "data") ELSE retMsg
    /\ IF HandleErrors(errBool')
       THEN /\ printed' = retMsg'
            /\ exitcode' = -1
            /\ pos' = "exited"
            /\ UNCHANGED didx
       ELSE /\ UNCHANGED <<printed, exitcode>>
            /\ IF didx < nObs
               THEN /\ didx' = didx + 1
                    /\ pos' = "ParseData"
               ELSE /\ pos' = IF errBool' = FALSE THEN "fit" ELSE "cannot"
                    /\ UNCHANGED didx
    /\ UNCHANGED <<notMain, mainInputs, loop, fitted, mci, tpars, ob_R1p_MC, refits,
                   optcalls, arrays, R1pD_MC, fitted_msg, polish_x0, fits>>

\* lines 456-467, 534-547: the local fit
FitLocal ==
    /\ pos = "fit"
    /\ FitType \in {"local", "localint"}
    /\ \E x \in Xs : fitted' = x
    /\ optcalls' = optcalls + 1
    /\ tpars' = << >>
    /\ refits' = << >>
    /\ mci' = 0
    /\ pos' = IF mcerr THEN "mc" ELSE "write"
    /\ UNCHANGED <<notMain, mainInputs, loop, didx, errBool, retMsg, printed, exitcode,
                   ob_R1p_MC, arrays, R1pD_MC, fitted_msg, polish_x0, fits>>

\* lines 474-482, 553-564: one Monte-Carlo iteration, the data of every
\* dataset drawn anew and the refit
MonteCarlo ==
    /\ pos = "mc"
    /\ ob_R1p_MC' = [ob \in Sets |-> mci + 1]
    /\ R1pD_MC' = [ob \in Sets |-> MCArray(ob)]
    /\ \E noise \in Noise :
        arrays' = [a \in Sets \cup {MCArray(ob) : ob \in Sets} |->
                    IF \E ob \in Sets : a = MCArray(ob)
                    THEN arrays[CHOOSE ob \in Sets : a = MCArray(ob)] + noise
                    ELSE arrays[a]]
    /\ \E x \in Xs : tpars' = Append(tpars, x)
    /\ refits' = Append(refits, [x0 |-> RefitStart, data |-> ob_R1p_MC'])
    /\ optcalls' = optcalls + 1
    /\ mci' = mci + 1
    /\ pos' = IF mci + 1 < fitMC THEN "mc" ELSE "write"
    /\ UNCHANGED <<notMain, mainInputs, loop, didx, errBool, retMsg, printed, exitcode,
                   fitted, fitted_msg, polish_x0, fits>>

\* lines 491-531, 577-615: the records of the local fit, and the next pass
WriteLocal ==
    /\ pos = "write"
    /\ \E se \in cStdErr : fits' = fits \o LocalRecords(se)
    /\ loop' = loop + 1
    /\ pos' = IF loop + 1 < loops THEN "fit" ELSE "done"
    /\ UNCHANGED <<notMain, mainInputs, didx, errBool, retMsg, printed, exitcode, fitted,
                   mci, tpars, ob_R1p_MC, refits, optcalls, arrays, R1pD_MC, fitted_msg,
                   polish_x0>>

\* the messages AMPGO returns, AMPGO.py lines 176, 180, 241, 246, 258, 261
AMPGOMessages == {Success, EvalsExceeded, ItersExceeded}

\* lines 387-420: the global fit and its records; fitted[3] is not looked at,
\* and the record holds fitted[1], the best_f of AMPGO
FitGlobal ==
    /\ pos = "fit"
    /\ FitType = "global"
    /\ \E x \in Xs, m \in AMPGOMessages :
        /\ fitted' = x
        /\ fitted_msg' = m
        /\ fits' = fits \o StageRecords("global", x, BestF(x), None)
    /\ optcalls' = optcalls + 1
    /\ pos' = "polish"
    /\ UNCHANGED <<notMain, mainInputs, loop, didx, errBool, retMsg, printed, exitcode,
                   mci, tpars, ob_R1p_MC, refits, arrays, R1pD_MC, polish_x0>>

\* gl.gP0, the initial guess of the parameter file, line 397
gP0 == 0

\* line 425 with the initial guess in place of fitted[0]
PolishStartGuess == gP0

\* line 425: the polish starts from fitted[0], the best point of AMPGO
PolishStart == fitted

\* lines 422-454: the polish, its records, and the next pass
Polish ==
    /\ pos = "polish"
    /\ polish_x0' = PolishStart
    /\ \E x \in Xs, se \in cStdErr :
        /\ fitted' = x
        /\ fits' = fits \o StageRecords("polish", x, chi2at(x), se)
    /\ optcalls' = optcalls + 1
    /\ loop' = loop + 1
    /\ pos' = IF loop + 1 < loops THEN "fit" ELSE "done"
    /\ UNCHANGED <<notMain, mainInputs, didx, errBool, retMsg, printed, exitcode,
                   mci, tpars, ob_R1p_MC, refits, arrays, R1pD_MC, fitted_msg>>

NextMain ==
    \/ CheckPars
    \/ ParseData
    \/ FitLocal
    \/ MonteCarlo
    \/ WriteLocal
    \/ FitGlobal
    \/ Polish

InitM == InitMain /\ NoBrute /\ NoAMPGO /\ NoFun

InitAB == InitBounds /\ NoBrute /\ NoFun /\ NoMain

InitE == InitEntry /\ NoBrute /\ NoFun /\ NoMain

SpecMain == InitM /\ [][NextMain]_vars

SpecEntry == InitE /\ [][NextEntry]_vars

SpecTunnel == InitTu /\ [][NextTunnel]_vars

SpecObjective == InitO /\ [][NextObjective]_vars

SpecBrute == InitB /\ [][NextBrute]_vars

SpecBounds == InitAB /\ [][NextAMPGO]_vars

SpecTabu == InitT /\ [][NextTabu]_vars

SpecAMPGO == InitA /\ [][NextAMPGO]_vars

(***************************************************************************)
(* Properties of the brute-force search.                                   *)
(***************************************************************************)
InParmap == mainpc \in {"parmap", "send", "poison", "collect", "join"}

IndexOrdered(recs) ==
    \A p, q \in 1 .. Len(recs) : p < q => recs[p].index <= recs[q].index

\* C1: the start vector of the final refinement is a grid vector whose reduced
\* chi-square is the lowest among all grid points.
C1_SeedIsBestOfGrid ==
    mainpc = "refine" => score[tP0] = SetMin({score[g] : g \in Grid})

\* C2: parmap(f, X) returns a list of length len(X) whose k-th entry is f(X[k]),
\* whatever the number of workers and the order in which they finish; no input
\* is evaluated twice, and at the return each was evaluated exactly once.
C2_ParmapIsMap ==
    /\ InParmap => \A g \in Grid : ncalls[g] <= 1
    /\ mainpc = "aggregate" =>
        /\ Len(allfits) = gridN
        /\ \A k \in 1 .. gridN : allfits[k] = f(X(k - 1))
        /\ \A g \in Grid : ncalls[g] = 1

C2_Witness ==
    /\ mainpc = "aggregate"
    /\ nprocs >= 2
    /\ gridN >= 3
    /\ res[1][1] > res[2][1]
    /\ score[0] # score[1]

\* C3: when f returns for every input, parmap never blocks for ever on the
\* size-1 input queue: poison items are enqueued only after all work items, at
\* most nprocs of them, and at the return exactly nprocs were enqueued, every
\* worker has taken one and exited, both queues are empty, no work item is left
\* and all workers were joined.
C3_ParmapTerminates ==
    raises = {} =>
        /\ InParmap => ENABLED NextBrute
        /\ Len(q_in) <= QInSize
        /\ poisoned <= nprocs
        /\ poisoned > 0 => sent = gridN
        /\ mainpc = "aggregate" =>
            /\ poisoned = nprocs
            /\ \A w \in Procs : wpc[w] = "exited" /\ witem[w] = <<None, None>>
            /\ q_in = << >>
            /\ q_out = << >>
            /\ Len(res) = gridN
            /\ joined = nprocs

C3_Witness ==
    /\ mainpc = "aggregate"
    /\ raises = {}
    /\ nprocs >= 2
    /\ gridN >= 2

C3_WitnessEmpty ==
    /\ mainpc = "aggregate"
    /\ gridN = 0
    /\ nprocs >= 2

\* C4: the 'local' records of the grid points are written in increasing grid
\* index order, and all of them before the record of the final refinement.
C4_RecordsInIndexOrder ==
    lp = 0 => IndexOrdered(records)

\* C5: a grid point whose evaluation fails never stalls the pool: parmap can
\* always go on until it returns.
C5_PoolNeverStalls ==
    InParmap => ENABLED NextBrute

(***************************************************************************)
(* Properties of AMPGO.                                                    *)
(***************************************************************************)
\* C6: AMPGO returns 'Optimization terminated successfully' if and only if the
\* best_f it returns is below fmin + glbtol, at every return.
C6_MessageMatchesBest ==
    apc = "returned" => (msg = Success <=> Reached(best_f))

C6_Witness ==
    /\ apc = "returned"
    /\ msg = Success
    /\ success_tunnel >= 1
    /\ global_iter = 0

\* C7: the best_f AMPGO returns is objfun at the best_x it returns.
C7_BestIsObjfunAtBestX ==
    apc = "returned" => best_f = Fin(objfun[best_x])

\* C8: the number of evaluations AMPGO returns never exceeds the maxfunevals it
\* was given.
C8_WithinBudget ==
    apc = "returned" => evaluations <= maxfunevals_in

\* C9: AMPGO runs at most totaliter global iterations and then returns with
\* 'Maximum number of global iterations exceeded' unless it returned earlier
\* for success or for the budget; until it has returned it is at a step it can
\* take when the local solve returns, and every step brings the return nearer.
C9_Bounded ==
    /\ started <= totaliter
    /\ global_iter <= totaliter
    /\ global_iter = totaliter => apc = "returned" /\ msg = ItersExceeded
    /\ apc = "returned" => msg \in {Success, EvalsExceeded, ItersExceeded}
    /\ apc = "returned" /\ msg = ItersExceeded => global_iter = totaliter
    /\ apc = "min" => MinimizeObj(x0) # {}
    /\ apc = "tunnel" => best_f[1] = "fin"
    /\ apc \in {"min", "tunnel", "endloop", "returned"}

C9_StepsLeft ==
    IF apc = "returned" THEN 0
    ELSE (totaliter - global_iter) * (maxiter + 3)
         - (IF apc = "min" THEN 0 ELSE IF apc = "tunnel" THEN 1 + i ELSE maxiter + 2)

C9_Terminates ==
    /\ []C9_Bounded
    /\ [][C9_StepsLeft' < C9_StepsLeft]_vars

C9_Witness ==
    /\ apc = "returned"
    /\ msg = ItersExceeded
    /\ totaliter >= 2
    /\ started = totaliter

\* C10: a global iteration runs at most maxiter tunnelling solves and its
\* tunnelling phase ends at the first accepted one: successful <= all,
\* all <= maxiter * (global iterations started), successful <= global
\* iterations started.
C10_TunnelInfo ==
    /\ i <= maxiter
    /\ apc = "tunnel" => improve = 0 /\ i < maxiter
    /\ success_tunnel <= all_tunnel
    /\ all_tunnel <= maxiter * started
    /\ success_tunnel <= started

C10_Witness ==
    /\ apc = "returned"
    /\ started >= 2
    /\ success_tunnel >= 1
    /\ all_tunnel > success_tunnel

\* C11: the tabu list holds at most tabulistsize points at every point of an
\* AMPGO run, for either strategy, and a point leaves it only when the list
\* already holds tabulistsize points and a new local minimum xf is appended:
\* below capacity the list only grows by xf at its end, at capacity it keeps
\* its length and ends with xf.
C11_AtMostSize == Len(tabulist) <= tabulistsize

C11_EvictOnlyWhenFull ==
    tabulist' # tabulist =>
        IF Len(tabulist) < tabulistsize
        THEN tabulist' = Append(tabulist, xf')
        ELSE /\ Len(tabulist') = tabulistsize
             /\ tabulist'[tabulistsize] = xf'
             /\ \E k \in 1 .. Len(tabulist) : tabulist' = Append(Remove(tabulist, k), xf')

C11_TabuCapacity ==
    /\ []C11_AtMostSize
    /\ [][C11_EvictOnlyWhenFull]_vars

\* every solve so far appended its minimum, more of them than the list holds
C11_Witness ==
    /\ apc # "returned"
    /\ Len(tabulist) = tabulistsize
    /\ started + all_tunnel > tabulistsize
    /\ tabustrategy = "farthest"

\* C12: when the tabu list is full, drop_tabu_points removes exactly one point
\* and keeps the others in their order: under 'oldest' the earliest-inserted
\* point, under 'farthest' a point whose distance to the new minimum xf is the
\* largest of the list.
C12_Kept(tl, r, k) ==
    /\ Len(r) = Len(tl) - 1
    /\ \A j \in 1 .. Len(r) : r[j] = (IF j < k THEN tl[j] ELSE tl[j + 1])

C12_DropsOne ==
    fpc = "ret" /\ Len(fargs.tabulist) = fargs.tabulistsize =>
        IF fargs.tabustrategy = "oldest"
        THEN C12_Kept(fargs.tabulist, fret, 1)
        ELSE \E k \in 1 .. Len(fargs.tabulist) :
                /\ C12_Kept(fargs.tabulist, fret, k)
                /\ \A j \in 1 .. Len(fargs.tabulist) :
                        Abs(fargs.tabulist[j] - fargs.xf) <= Abs(fargs.tabulist[k] - fargs.xf)

\* a full list of distinct points whose farthest point is not its oldest
C12_Witness ==
    /\ fpc = "ret"
    /\ fargs.tabustrategy = "farthest"
    /\ fargs.tabulist = <<1, 3>>
    /\ fargs.tabulistsize = 2
    /\ fargs.xf = 0
    /\ fret = <<1>>

\* C13: every vector AMPGO emits lies within the bounds, low <= x <= up,
\* whatever the start vector x0: the point it holds as best once a solve
\* returned, the best_x it returns, and every tunnelling start point it hands
\* to the solver (x0 after the first tunnelling phase).
C13_WithinBounds ==
    /\ started >= 1 => low <= best_x /\ best_x <= up
    /\ apc = "returned" => low <= best_x /\ best_x <= up
    /\ all_tunnel >= 1 => low <= x0 /\ x0 <= up

\* AMPGO was started above the bounds and returned after its first solve
C13_Witness ==
    /\ apc = "returned"
    /\ started = 1
    /\ x0 > up
    /\ best_x <= up

(***************************************************************************)
(* Properties of the objective functions.                                  *)
(***************************************************************************)
\* C14: the objective functions never hand a non-finite value to the
\* optimizer: chi2 returns a finite number and every element of the vector
\* residual returns is finite.
C14_FiniteObjective ==
    fpc = "ret" =>
        /\ fname = "chi2" => fret[1] = "fin"
        /\ fname = "residual" => \A j \in 1 .. Len(fret) : fret[j][1] = "fin"

\* chi2 met a simulated value of -inf on a row with an error and returned the
\* sentinel
C14_Witness ==
    /\ fpc = "ret"
    /\ fname = "chi2"
    /\ fret = Fin(Sentinel)
    /\ \E k \in 1 .. Len(fargs.gObs) : \E j \in 1 .. Len(fargs.gObs[k]) :
            fargs.gObs[k][j].pred = NegInf /\ fargs.gObs[k][j].err # 0

\* C16: in R1p mode chi2 adds ((pred-obs)/err)^2 for every row of every dataset
\* that has per-point errors and (pred-obs)^2/obs only for the rows of datasets
\* without errors, for datasets of every size, one row included.
C16_HasErrors(ob) == \E j \in 1 .. Len(ob) : ob[j].err # 0

C16_Terms(ob) ==
    [j \in 1 .. Len(ob) |->
        IF C16_HasErrors(ob)
        THEN FSqr(FDiv(FSub(ob[j].pred, ob[j].obs), ob[j].err))
        ELSE FDiv(FSqr(FSub(ob[j].pred, ob[j].obs)), ob[j].obs)]

C16_Sum(gObs) == FSum(Concat([k \in 1 .. Len(gObs) |-> C16_Terms(gObs[k])]))

C16_Chi2ByErrors ==
    fpc = "ret" /\ fname = "chi2" /\ fargs.DataType = "R1p" =>
        fret = (IF C16_Sum(fargs.gObs)[1] = "fin" THEN C16_Sum(fargs.gObs)
                ELSE Fin(Sentinel))

(***************************************************************************)
(* Properties of the tunnelling function.                                  *)
(***************************************************************************)
\* the second point is farther than the first from every tabu point
C15_Farther ==
    \A j \in 1 .. Len(fargs.tabulist) :
        Abs(fargs.xs[2] - fargs.tabulist[j]) > Abs(fargs.xs[1] - fargs.tabulist[j])

\* a < b of two tunnel values, a finite; a positive numerator over 0 is +inf
C15_Less(a, b) ==
    IF b.den = 0 THEN b.num > 0 ELSE a.num * b.den < b.num * a.den

\* C15 as stated: for a fixed raw objective value, aspiration and non-empty
\* tabu list, tunnel strictly decreases when the distance of x to every tabu
\* point increases, for every raw objective value, one equal to the
\* aspiration value included.
C15_StrictlyDecreasing ==
    fpc = "ret" /\ C15_Farther => C15_Less(fret[2], fret[1])

\* C15 as amended: the same for every raw objective value other than the
\* aspiration value; at the aspiration value tunnel is zero at the farther
\* point as it is at every point off the tabu list.
C15_DecreasingOffAspiration ==
    fpc = "ret" /\ C15_Farther =>
        IF objfun[fargs.xs[1]] # fargs.aspiration
        THEN C15_Less(fret[2], fret[1])
        ELSE fret[2].num = 0 /\ fret[2].den > 0

\* two tabu points, a raw value off the aspiration value, and a move away
\* from both
C15_Witness ==
    /\ fpc = "ret"
    /\ C15_Farther
    /\ Len(fargs.tabulist) = 2
    /\ fargs.tabulist[1] # fargs.tabulist[2]
    /\ objfun[fargs.xs[1]] # fargs.aspiration
    /\ fret[1].den > 0

(***************************************************************************)
(* Properties of Main: error estimation and error handling.                *)
(***************************************************************************)
\* C17: with analytic error estimation a dataset whose error column sums to
\* zero gets standard errors of zero in every fit stage that reports analytic
\* errors: the local and localint fits and the polish of the global fit.
C17_Analytic(rec) == rec.stage = "polish" \/ (rec.stage = "local" /\ ~ mcerr)

C17_ZeroErrorsForZeroSum ==
    \A k \in 1 .. Len(fits) :
        C17_Analytic(fits[k]) /\ fits[k].ob \in errsum0 => fits[k].err = 0

\* C18: with Monte-Carlo error estimation of N iterations, a local or localint
\* fit loop makes exactly N refits; before each refit the data of every
\* dataset are drawn anew; each refit starts from the vector the main fit
\* converged to; and that vector is unchanged: the local record written after
\* the refits carries it.
C18_LocalMC == mcerr /\ FitType \in {"local", "localint"}

C18_MonteCarloRefits ==
    C18_LocalMC =>
        /\ Len(refits) <= fitMC
        /\ Len(tpars) = Len(refits)
        /\ pos = "write" => Len(refits) = fitMC /\ optcalls = (loop + 1) * (1 + fitMC)
        /\ pos \in {"mc", "write"} =>
                \A k \in 1 .. Len(refits) :
                    /\ refits[k].x0 = fitted
                    /\ \A ob \in Sets : refits[k].data[ob] = k
        /\ pos \in {"fit", "done"} /\ loop >= 1 =>
                /\ Len(refits) = fitMC
                /\ optcalls = loop * (1 + fitMC)
                /\ fits[Len(fits)].stage = "local"
                /\ \A k \in 1 .. Len(refits) : refits[k].x0 = fits[Len(fits)].x

\* two refits were made, the first of which moved away from the main fit
C18_Witness ==
    /\ C18_LocalMC
    /\ pos = "done"
    /\ nObs >= 2
    /\ fitMC >= 2
    /\ tpars[1] # fitted

\* C19: when the check of the parameter file or the parsing of a dataset
\* reports an error, the program prints the message and exits with status -1
\* before any optimizer is called and before any fit record is written.
C19_ExitOnError ==
    /\ pos = "exited" =>
            /\ exitcode = -1
            /\ printed = retMsg
            /\ printed # << >>
            /\ optcalls = 0
            /\ fits = << >>
    /\ pos = "ParseData" => ~ parsErr /\ \A d \in dataErr : d >= didx
    /\ pos \notin {"CheckPars", "ParseData", "exited"} => ~ parsErr /\ dataErr = {}
    /\ optcalls > 0 \/ fits # << >> => ~ parsErr /\ dataErr = {}

\* the parsing of the second dataset reported the error
C19_Witness ==
    /\ pos = "exited"
    /\ ~ parsErr
    /\ didx = 2
    /\ 1 \notin dataErr

(***************************************************************************)
(* Properties of the checks AMPGO makes of its arguments.                  *)
(***************************************************************************)
\* C20: AMPGO rejects an invalid configuration by raising before objfun is
\* evaluated even once: an unknown local solver, a bounds sequence whose
\* length differs from len(x0) (a ValueError), a tabulistsize below 1, a
\* tabustrategy that is neither 'oldest' nor 'farthest'.
C20_Invalid ==
    \/ local \notin SCIPY_LOCAL_SOLVERS \cup OPENOPT_LOCAL_SOLVERS
    \/ bounds_len \notin {None, n}
    \/ tabulistsize < 1
    \/ tabustrategy \notin {"oldest", "farthest"}

C20_RejectsBeforeEvaluating ==
    /\ C20_Invalid =>
            /\ apc \in {"entry", "raised"}
            /\ evaluations = 0 /\ started = 0 /\ all_tunnel = 0
    /\ apc = "raised" => exc \in {"Exception", "ValueError"}
    /\ apc = "raised" /\ exc = "ValueError" => bounds_len \notin {None, n}
    /\ apc = "raised" /\ bounds_len \notin {None, n}
            /\ local \in SCIPY_LOCAL_SOLVERS => exc = "ValueError"
    /\ apc \notin {"entry", "raised"} => exc = ""

\* all is valid but the tabustrategy, and AMPGO raised
C20_Witness ==
    /\ apc = "raised"
    /\ local = "L-BFGS-B"
    /\ bounds_len = n
    /\ tabulistsize >= 1
    /\ tabustrategy = "newest"

(***************************************************************************)
(* Properties of the fit records.                                          *)
(***************************************************************************)
\* the records p+1 .. p+nObs of fits are the records of stage stage and index
\* index of the datasets 1 .. nObs in turn, all of the vector x
C21_Block(p, stage, index, x) ==
    \A ob \in Sets :
        /\ fits[p + ob].stage = stage
        /\ fits[p + ob].index = index
        /\ fits[p + ob].ob = ob
        /\ fits[p + ob].x = x

\* C21: in global mode, whichever message AMPGO returned, the loop writes a
\* 'global' record for every dataset from AMPGO's best point, then runs the
\* polish started from that same point, then writes a 'polish' record for
\* every dataset; within a loop iteration every 'global' record precedes
\* every 'polish' record.
C21_GlobalThenPolish ==
    FitType = "global" =>
        /\ pos = "polish" =>
                /\ fitted_msg \in AMPGOMessages
                /\ Len(fits) = 2 * nObs * loop + nObs
                /\ C21_Block(2 * nObs * loop, "global", loop + 1, fitted)
        /\ pos \in {"fit", "done"} /\ loop >= 1 =>
                /\ Len(fits) = 2 * nObs * loop
                /\ C21_Block(2 * nObs * (loop - 1), "global", loop, polish_x0)
                /\ C21_Block(2 * nObs * (loop - 1) + nObs, "polish", loop, fitted)
        /\ \A p, q \in 1 .. Len(fits) :
                /\ fits[p].index = fits[q].index
                /\ fits[p].stage = "global"
                /\ fits[q].stage = "polish"
                => p < q

\* AMPGO ran out of evaluations, and the polish moved away from its best point
C21_Witness ==
    /\ FitType = "global"
    /\ pos = "done"
    /\ fitted_msg = EvalsExceeded
    /\ nObs >= 2
    /\ polish_x0 = 1
    /\ fitted # polish_x0

C22_IsPrefix(a, b) == Len(a) <= Len(b) /\ \A k \in 1 .. Len(a) : a[k] = b[k]

C22_UniqueKeys ==
    \A p, q \in 1 .. Len(fits) :
        p # q /\ fits[p].ob = fits[q].ob =>
            <<fits[p].index, fits[p].stage>> # <<fits[q].index, fits[q].stage>>

\* C22: over a whole run, for every loop count FitLoops >= 1 and every fit
\* mode, fit records are only appended, and no two records of a dataset carry
\* the same (index, stage label) key.
C22_AppendOnlyUniqueKeys ==
    /\ []C22_UniqueKeys
    /\ [][C22_IsPrefix(fits, fits')]_vars

(***************************************************************************)
(* Properties of the Monte-Carlo corruption.                               *)
(***************************************************************************)
\* C23: Monte-Carlo corruption writes only to the corrupted copy of a dataset
\* (R1p_MC in R1p mode, R1pD_MC in intensity mode): the observed values of
\* every dataset are the same before and after any number of Monte-Carlo
\* iterations, and the corrupted copy is an array of its own.
C23_ObservedUntouched ==
    pos \notin {"unused"} =>
        \A ob \in Sets :
            /\ arrays[ob] = R1pD(ob)
            /\ R1pD_MC[ob] # None => R1pD_MC[ob] \notin Sets /\ R1pD_MC[ob] \in DOMAIN arrays
            /\ mcerr /\ FitType \in {"local", "localint"} /\ pos \in {"write", "done"} =>
                    R1pD_MC[ob] # None

\* two iterations in intensity mode left corrupted values in the copies
C23_Witness ==
    /\ pos = "done"
    /\ FitType = "localint"
    /\ mcerr
    /\ mci >= 2
    /\ nObs >= 2
    /\ \A ob \in Sets : arrays[R1pD_MC[ob]] # arrays[ob]

(***************************************************************************)
(* Properties of AMPGO as BMNS.py calls it.                                *)
(***************************************************************************)
\* C24: with fmin left at its default of -infinity, as in the call of the
\* global fit, AMPGO never returns 'Optimization terminated successfully': it
\* runs until the evaluation budget is used up or the cap of global
\* iterations is reached.
C24_NeverSuccess ==
    /\ fmin = NegInf
    /\ msg # Success
    /\ apc = "returned" =>
            \/ msg = EvalsExceeded /\ maxfunevals <= 0
            \/ msg = ItersExceeded /\ global_iter = totaliter

\* a tunnelling phase found the lowest value of the objective, with
\* evaluations to spare, and AMPGO went on to the cap of global iterations
C24_Witness ==
    /\ apc = "returned"
    /\ msg = ItersExceeded
    /\ success_tunnel >= 1
    /\ best_f = Fin(-1)
    /\ maxfunevals > 0

(***************************************************************************)
(* Properties of CheckErrArgs.                                             *)
(***************************************************************************)
C25_Incorrect ==
    \/ fargs.argc # 6
    \/ ~ fargs.fitIsFile
    \/ ~ fargs.dataIsFile
    \/ fargs.outIsFile

\* C25: CheckErrArgs terminates the program with exit status -1 whenever the
\* arguments are not correct: argc != 6, the fit file does not exist, the
\* data file does not exist, or the output path is an existing file; it
\* returns normally only when none of them holds.
C25_ExitsOnIncorrectArgs ==
    fpc = "ret" =>
        IF C25_Incorrect
        THEN fret.outcome = "SystemExit" /\ fret.code = -1
        ELSE fret.outcome = "return"

(***************************************************************************)
(* Properties of the evaluation budget of AMPGO.                           *)
(***************************************************************************)
\* C26: AMPGO starts a local solve only while the budget left is > 0: the
\* evaluations counted so far and the budget left always add up to the
\* maxfunevals AMPGO started with, and as soon as the budget left is <= 0
\* after a minimization or tunnelling solve AMPGO has returned, with
\* 'Maximum number of function evaluations exceeded' unless the success test
\* holds, without starting another solve.
C26_SolveOnlyWithBudget ==
    /\ evaluations + maxfunevals = maxfunevals_in
    /\ apc \in {"min", "tunnel", "endloop"} => maxfunevals > 0
    /\ maxfunevals <= 0 =>
            /\ apc = "returned"
            /\ msg = (IF Reached(best_f) THEN Success ELSE EvalsExceeded)

\* the budget ran out in a tunnelling solve of the second global iteration
C26_Witness ==
    /\ apc = "returned"
    /\ msg = EvalsExceeded
    /\ maxfunevals <= 0
    /\ started >= 2
    /\ i >= 1

(***************************************************************************)
(* Properties of the Monte-Carlo records.                                  *)
(***************************************************************************)
\* C27: the reduced chi-square stored in the k-th 'mcerr' record is chi2 at
\* the parameter vector of the k-th Monte-Carlo refit, over dof, in local and
\* in localint mode alike.
C27_OwnChiSquare ==
    \A k \in 1 .. Len(fits) :
        fits[k].stage = "mcerr" => fits[k].chisq = chi2at(fits[k].x)

(***************************************************************************)
(* Properties of inverse_tunnel.                                           *)
(***************************************************************************)
\* C28: inverse_tunnel inverts tunnel: for every point x that is not a tabu
\* point, every tabu list, the empty one included, and every aspiration
\* value, inverse_tunnel(x, tunnel(x, objfun, aspiration, tabulist),
\* aspiration, tabulist) equals objfun(x).
C28_InverseInverts ==
    /\ fname = "inverse_tunnel"
    /\ \A j \in 1 .. Len(fargs.tabulist) : fargs.tabulist[j] # fargs.xs[1]
    => fret[2] = Fin(objfun[fargs.xs[1]])

(***************************************************************************)
(* Properties of the best value of AMPGO.                                  *)
(***************************************************************************)
\* C29: best_f never increases during an AMPGO run: after every minimization
\* step and every tunnelling step the stored best value is <= its previous
\* value.
C29_BestNeverIncreases == [][Le(best_f', best_f)]_vars

====
